---- MODULE Spec2Model ----
(***************************************************************************)
(* A model of cmake_cli's BaseCMakeBuilder (base_cmake_builder.py): the    *)
(* command assembly of build() and the pipeline executor piped_runner().   *)
(*                                                                         *)
(* Encoding of Python values                                               *)
(*   Optional[x]     << >> is None, <<x>> is the value x                    *)
(*   str             a TLA+ string; a str the code takes apart (the        *)
(*                   free-form --gen-args / --build-args) is a sequence of *)
(*                   one-character strings, so that split() is computed    *)
(*   list            a sequence                                            *)
(*   Namespace       a record whose DOMAIN is the set of attributes the    *)
(*                   object has; reading a missing one is AttributeError   *)
(* PATH is the set of executable names shutil.which() resolves.            *)
(***************************************************************************)
EXTENDS Integers, Sequences, FiniteSets, TLC

VARIABLES
    args,          \* self.args: the main parser's namespace
    subargs,       \* the sub-command parser's namespace handed to build()
    call,          \* the other parameters of the build() call
    path,          \* executables present on the system path
    cpu_count,     \* multiprocessing.cpu_count()
    writes,        \* writes[k]: units of output the k-th relay stage of the build pipeline produces
    pc,            \* where the orchestrating process is
    phase,         \* which piped_runner call is running: "gen" or "build"
    gen_cmd,       \* build(): gen_cmd once assembled, << >> before
    build_pipeline,\* build(): [build_cmd + native_build_tool_args] + piped_commands once assembled
    warnings,      \* the WARN lines printed so far
    cmds,          \* piped_runner(): its argument
    processes,     \* piped_runner(): the Popen objects with the state of their children
    handles,       \* piped_runner(): stages whose stdout read end the orchestrator holds open
    todo,          \* piped_runner(): what is left of reversed(processes), as indices
    exit_status,   \* the code given to sys.exit, << >> while there is none
    trace          \* every Popen() and every completed wait(), in order

vars == <<args, subargs, call, path, cpu_count, writes, pc, phase, gen_cmd,
          build_pipeline, warnings, cmds, processes, handles, todo,
          exit_status, trace>>

inputs == <<args, subargs, call, path, cpu_count, writes>>

(***************************************************************************)
(* Bounds of the model.                                                    *)
(***************************************************************************)
\* longest free-form argument string (--gen-args, --build-args)
MaxLen == 3
\* most stages a caller passes in piped_commands
MaxPiped == 1
\* units of data a pipe buffers before a write to it blocks
PipeCap == 1

Chars == {"k", "v", " ", "\t"}
Whitespace == {" ", "\t"}
ExitCodes == {0, 1, 2}
CpuCounts == {1, 8}
Generators == {"Ninja", "Unix Makefiles", "Xcode"}
Tools == {"cmake", "ccache", "unbuffer", "less", "bat", "more", "tee"}
TeeCommand == <<"tee", "build.log">>

None == << >>
Some(x) == <<x>>
IsNone(o) == o = << >>
Value(o) == o[1]
HasAttr(o, a) == a \in DOMAIN o

\* the strings of at most n characters, as character sequences
RECURSIVE StringsUpTo(_)
StringsUpTo(n) ==
    IF n = 0 THEN {<< >>}
    ELSE LET shorter == StringsUpTo(n - 1)
         IN  shorter \cup {Append(s, c) : s \in {t \in shorter : Len(t) = n - 1}, c \in Chars}

\* the lists of at most n copies of x
RECURSIVE ListsUpTo(_, _)
ListsUpTo(x, n) ==
    IF n = 0 THEN {<< >>} ELSE {<< >>} \cup {<<x>> \o l : l \in ListsUpTo(x, n - 1)}

\* r without its field a
Without(r, a) == [f \in DOMAIN r \ {a} |-> r[f]]
\* the records r with field a absent or set to a value of S
AbsentOr(r, a, S) == {Without(r, a)} \cup {[r EXCEPT ![a] = v] : v \in S}

(***************************************************************************)
(* The helpers of BaseCMakeBuilder.                                        *)
(***************************************************************************)
pager_list == << <<"less", "-R">>, <<"bat", "-p">>, <<"more">> >>

cmake_command == "cmake"

\* shutil.which(cmd) is not None
exists_in_path(cmd, p) == cmd \in p

\* what exists_in_path_warn returns (out) and what it prints (printed)
exists_in_path_warn(cmd, p) ==
    [out     |-> exists_in_path(cmd, p),
     printed |-> IF exists_in_path(cmd, p) THEN << >>
                 ELSE <<"WARN: " \o cmd \o " not found in path">>]

\* the loop of get_pager over what is left of the pager list
RECURSIVE first_pager(_, _)
first_pager(pagers, p) ==
    IF pagers = << >> THEN None
    ELSE IF exists_in_path(Head(pagers)[1], p) THEN Some(Head(pagers))
    ELSE first_pager(Tail(pagers), p)

get_pager(p) == first_pager(pager_list, p)

build_cmake_command(piped_commands, p) ==
    IF piped_commands # << >> /\ exists_in_path("unbuffer", p)
    THEN <<"unbuffer", cmake_command>>
    ELSE <<cmake_command>>

\* str() of an int
str(n) == ToString(n)

\* str.split() with no separator: the maximal runs of non-whitespace characters.
\* s: the characters left, cur: the token being read, acc: the tokens read
RECURSIVE split_from(_, _, _)
split_from(s, cur, acc) ==
    LET closed == IF cur = "" THEN acc ELSE Append(acc, cur)
    IN  IF s = << >> THEN closed
        ELSE IF Head(s) \in Whitespace THEN split_from(Tail(s), "", closed)
        ELSE split_from(Tail(s), cur \o Head(s), acc)

split(s) == split_from(s, "", << >>)

\* build()'s inner append_args: cmd += args.split() unless args is None
append_args(cmd, a) == IF IsNone(a) THEN cmd ELSE cmd \o split(Value(a))

(***************************************************************************)
(* build(): the values it computes before it runs anything.                *)
(***************************************************************************)
\* a changed skip_gen_of: the parsed flag is not read
skip_gen_parameter_only(c, sub) == c.skip_gen

\* skip_gen = skip_gen or subargs.skip_gen, the parameter alone on AttributeError
skip_gen_of(c, sub) ==
    IF HasAttr(sub, "skip_gen") THEN c.skip_gen \/ sub.skip_gen ELSE c.skip_gen

\* piped_commands after the defaulting of None and the appending of the pager
piped_commands_of(c, a, p) ==
    LET given == IF IsNone(c.piped_commands) THEN << >> ELSE Value(c.piped_commands)
    IN  IF a.page /\ ~IsNone(get_pager(p))
        THEN Append(given, Value(get_pager(p)))
        ELSE given

is_release_of(c, sub) == IF HasAttr(sub, "release") THEN sub.release ELSE c.is_release

\* a changed debug_info_of: the parsed flag is not read
debug_info_parameter_only(c, sub) == c.debug_info

debug_info_of(c, sub) == IF HasAttr(sub, "debug_info") THEN sub.debug_info ELSE c.debug_info

\* a changed build_type: the two release types taken for each other
build_type_swapped(is_release, debug_info) ==
    IF is_release
    THEN IF debug_info THEN "Release" ELSE "RelWithDebInfo"
    ELSE "Debug"

build_type(is_release, debug_info) ==
    IF is_release
    THEN IF debug_info THEN "RelWithDebInfo" ELSE "Release"
    ELSE "Debug"

\* the assert of the Debug branch holds
assert_debug_info(is_release, debug_info) == is_release \/ debug_info

ccache_launchers ==
    <<"-DCMAKE_C_COMPILER_LAUNCHER=ccache",
      "-DCMAKE_CXX_COMPILER_LAUNCHER=ccache",
      "-DCMAKE_CUDA_COMPILER_LAUNCHER=ccache">>

gen_args_of(a, sub, c, p) ==
    <<"-G" \o a.generator,
      "-B" \o c.directory,
      "-DCMAKE_BUILD_TYPE=" \o build_type(is_release_of(c, sub), debug_info_of(c, sub))>>
    \o (IF ~IsNone(a.source_dir) THEN <<Value(a.source_dir)>> ELSE << >>)
    \o (IF a.ccache /\ exists_in_path_warn("ccache", p).out THEN ccache_launchers ELSE << >>)
    \o (IF HasAttr(sub, "build_testing") /\ ~IsNone(sub.build_testing)
        THEN IF Value(sub.build_testing) THEN <<"-DBUILD_TESTING=ON">>
                                         ELSE <<"-DBUILD_TESTING=OFF">>
        ELSE << >>)

gen_cmd_of(a, sub, c, p) ==
    LET additional_gen_args ==
            IF IsNone(c.additional_gen_args) THEN << >> ELSE Value(c.additional_gen_args)
        cmd == <<cmake_command>> \o gen_args_of(a, sub, c, p) \o additional_gen_args
    IN  IF HasAttr(sub, "gen_args") THEN append_args(cmd, sub.gen_args) ELSE cmd

\* a changed threads_args: the core count is given to every generator
threads_args_any_generator(a, cpus) ==
    IF IsNone(a.threads) THEN <<"-j", str(cpus)>> ELSE <<"-j", str(Value(a.threads))>>

\* the -j part of the build command
threads_args(a, cpus) ==
    IF IsNone(a.threads)
    THEN IF a.generator = "Unix Makefiles" THEN <<"-j", str(cpus)>> ELSE << >>
    ELSE <<"-j", str(Value(a.threads))>>

build_cmd_of(a, sub, c, p, cpus) ==
    LET additional_build_args ==
            IF IsNone(c.additional_build_args) THEN << >> ELSE Value(c.additional_build_args)
        cmd == build_cmake_command(piped_commands_of(c, a, p), p)
               \o <<"--build", c.directory>> \o additional_build_args
    IN  (IF HasAttr(sub, "build_args") THEN append_args(cmd, sub.build_args) ELSE cmd)
        \o threads_args(a, cpus)

native_build_tool_args(a) ==
    <<"--">>
    \o (IF a.keep_going
        THEN IF a.generator = "Unix Makefiles" THEN <<"-k">>
             ELSE IF a.generator = "Ninja" THEN <<"-k", "0">>
             ELSE << >>
        ELSE << >>)

\* the argument of the second piped_runner call
build_pipeline_of(a, sub, c, p, cpus) ==
    <<build_cmd_of(a, sub, c, p, cpus) \o native_build_tool_args(a)>>
    \o piped_commands_of(c, a, p)

\* runner(cmd): the argument it gives piped_runner
runner(cmd) == <<cmd>>

\* a changed first_phase: the generation is never run
first_phase_build(skip_gen) == "build"

\* which piped_runner call build() makes first
first_phase(skip_gen) == IF ~skip_gen THEN "gen" ELSE "build"

skip_warning == "WARN: no commands will be run as gen and build were skipped"

(***************************************************************************)
(* The invocations the model starts from.  The default one is the one the  *)
(* parsers of build_main_parser and build_command give with no flags, on a *)
(* system with every tool present and silent children; each family below   *)
(* varies one group of inputs over all of its combinations.                *)
(***************************************************************************)
DefaultArgs ==
    [generator |-> "Ninja", page |-> FALSE, ccache |-> FALSE, threads |-> None,
     keep_going |-> FALSE, source_dir |-> None]

DefaultSubargs ==
    [skip_gen |-> FALSE, release |-> FALSE, debug_info |-> TRUE,
     build_testing |-> None, gen_args |-> None, build_args |-> None]

DefaultCall ==
    [directory |-> "build/debug", is_release |-> FALSE, debug_info |-> TRUE,
     additional_gen_args |-> None, additional_build_args |-> None,
     piped_commands |-> None, skip_gen |-> FALSE, skip_build |-> FALSE]

Silent == [k \in 1..(MaxPiped + 1) |-> 0]

DefaultInput ==
    [args |-> DefaultArgs, subargs |-> DefaultSubargs, call |-> DefaultCall,
     path |-> Tools, cpu_count |-> 8, writes |-> Silent]

OptionalStrings == {None} \cup {Some(s) : s \in StringsUpTo(MaxLen)}
OptionalLists(x) == {None, Some(<< >>), Some(<<x>>)}
PipedCommands == {None} \cup {Some(l) : l \in ListsUpTo(TeeCommand, MaxPiped)}

\* the skip flags against the release and debug-info flags
SkipInputs ==
    {[DefaultInput EXCEPT !.call = c, !.subargs = s] :
        c \in {[DefaultCall EXCEPT !.skip_gen = sg, !.skip_build = sb,
                                   !.is_release = r, !.debug_info = d] :
                    sg \in BOOLEAN, sb \in BOOLEAN, r \in BOOLEAN, d \in BOOLEAN},
        s \in UNION {UNION {AbsentOr(s2, "debug_info", BOOLEAN) :
                                s2 \in AbsentOr(s1, "release", BOOLEAN)} :
                        s1 \in AbsentOr(DefaultSubargs, "skip_gen", BOOLEAN)}}

\* what the generation command is assembled from
GenInputs ==
    {[DefaultInput EXCEPT !.args = a, !.subargs = s, !.path = p,
                          !.call.additional_gen_args = x, !.call.directory = dir] :
        a \in {[DefaultArgs EXCEPT !.generator = g, !.source_dir = src, !.ccache = cc] :
                    g \in Generators, src \in {None, Some("..")}, cc \in BOOLEAN},
        s \in UNION {AbsentOr(s1, "build_testing", {None, Some(TRUE), Some(FALSE)}) :
                        s1 \in {[DefaultSubargs EXCEPT !.release = r, !.debug_info = d] :
                                    r \in BOOLEAN, d \in BOOLEAN}},
        p \in {Tools, Tools \ {"ccache"}},
        x \in OptionalLists("-DCMAKE_EXPORT_COMPILE_COMMANDS=YES"),
        dir \in {"build/debug", "build/compile_commands_dir"}}

\* the free-form generation arguments
GenArgsInputs ==
    {[DefaultInput EXCEPT !.subargs = s, !.call.additional_gen_args = x] :
        s \in AbsentOr(DefaultSubargs, "gen_args", OptionalStrings),
        x \in {None, Some(<<"-DCMAKE_EXPORT_COMPILE_COMMANDS=YES">>)}}

\* what the build command is assembled from
BuildInputs ==
    {[DefaultInput EXCEPT !.args = a, !.path = p, !.cpu_count = n,
                          !.call.additional_build_args = x] :
        a \in {[DefaultArgs EXCEPT !.generator = g, !.threads = t, !.keep_going = k,
                                   !.page = pg] :
                    g \in Generators, t \in {None, Some(0), Some(12)},
                    k \in BOOLEAN, pg \in BOOLEAN},
        p \in {Tools, Tools \ {"unbuffer"}},
        n \in CpuCounts,
        x \in OptionalLists("--target")}

\* the free-form build arguments
BuildArgsInputs ==
    {[DefaultInput EXCEPT !.subargs = s, !.call.additional_build_args = x] :
        s \in AbsentOr(DefaultSubargs, "build_args", OptionalStrings),
        x \in {None, Some(<<"--target", "all">>)}}

\* which tools the system has, against the features that use them
ToolInputs ==
    {[DefaultInput EXCEPT !.path = p, !.args.page = pg, !.args.ccache = cc,
                          !.call.piped_commands = pi] :
        p \in SUBSET Tools, pg \in BOOLEAN, cc \in BOOLEAN, pi \in PipedCommands}

\* what a relay stage may write: nothing, what a pipe holds, or more than that
Volumes == {0, PipeCap, PipeCap + 1}

\* what the children of the build pipeline write, against its length (with the
\* generation skipped: the build pipeline is the only one with relay stages)
PipeInputs ==
    {[DefaultInput EXCEPT !.writes = w, !.args.page = pg, !.call.piped_commands = pi,
                          !.call.skip_gen = TRUE] :
        w \in [1..(MaxPiped + 1) -> Volumes],
        pg \in BOOLEAN, pi \in PipedCommands}

Inputs ==
    SkipInputs \cup GenInputs \cup GenArgsInputs \cup BuildInputs
    \cup BuildArgsInputs \cup ToolInputs \cup PipeInputs

Init ==
    /\ \E in \in Inputs :
        /\ args = in.args
        /\ subargs = in.subargs
        /\ call = in.call
        /\ path = in.path
        /\ cpu_count = in.cpu_count
        /\ writes = in.writes
    /\ pc = "build"
    /\ phase = "none"
    /\ gen_cmd = << >>
    /\ build_pipeline = << >>
    /\ warnings = << >>
    /\ cmds = << >>
    /\ processes = << >>
    /\ handles = {}
    /\ todo = << >>
    /\ exit_status = None
    /\ trace = << >>

(***************************************************************************)
(* build(), up to its first piped_runner call.                             *)
(***************************************************************************)
Terminal == {"returned", "exited", "assert_failed", "raised"}

Build ==
    /\ pc = "build"
    /\ LET skip_gen == skip_gen_of(call, subargs)
           accepted == assert_debug_info(is_release_of(call, subargs),
                                         debug_info_of(call, subargs))
       IN  IF skip_gen /\ call.skip_build
           THEN /\ warnings' = Append(warnings, skip_warning)
                /\ pc' = "returned"
                /\ UNCHANGED <<phase, gen_cmd, build_pipeline, cmds>>
           ELSE IF ~accepted
           THEN /\ pc' = "assert_failed"
                /\ UNCHANGED <<phase, gen_cmd, build_pipeline, cmds, warnings>>
           ELSE /\ gen_cmd' = gen_cmd_of(args, subargs, call, path)
                /\ build_pipeline' = build_pipeline_of(args, subargs, call, path, cpu_count)
                /\ warnings' = warnings \o (IF args.ccache
                                            THEN exists_in_path_warn("ccache", path).printed
                                            ELSE << >>)
                /\ phase' = first_phase(skip_gen)
                /\ cmds' = IF phase' = "gen" THEN runner(gen_cmd') ELSE build_pipeline'
                /\ pc' = "launch"
    /\ UNCHANGED <<inputs, processes, handles, todo, exit_status, trace>>

(***************************************************************************)
(* piped_runner().                                                         *)
(***************************************************************************)
\* a changed reversed: the order is kept
not_reversed(s) == s

\* reversed(s)
RECURSIVE reversed(_)
reversed(s) == IF s = << >> THEN << >> ELSE Append(reversed(Tail(s)), Head(s))

indices(n) == [k \in 1..n |-> k]

\* the stdout given to Popen for stage i of n
stdout_of(i, n) == IF i = n THEN "inherit" ELSE "PIPE"

\* a changed must_exit: the sweep goes on after a failure
must_exit_never(returncode) == FALSE

\* process.returncode != 0
must_exit(returncode) == returncode # 0

\* what stage i of the running pipeline will write to its stdout pipe
volume(i) == IF phase = "build" /\ i \in DOMAIN writes THEN writes[i] ELSE 0

\* The next Popen() of the launch loop succeeds.
Launch ==
    /\ pc = "launch"
    /\ LET i == Len(processes) + 1
           n == Len(cmds)
       IN  /\ exists_in_path(cmds[i][1], path)
           /\ processes' = Append(processes,
                                  [exit |-> None, stdout |-> stdout_of(i, n),
                                   towrite |-> IF stdout_of(i, n) = "PIPE" THEN volume(i) ELSE 0,
                                   buffered |-> 0])
           /\ handles' = IF stdout_of(i, n) = "PIPE" THEN handles \cup {i} ELSE handles
           /\ trace' = Append(trace, [op |-> "Popen", phase |-> phase, stage |-> i])
           /\ IF i = n
              THEN pc' = "wait" /\ todo' = reversed(indices(n))
              ELSE pc' = "launch" /\ todo' = todo
    /\ UNCHANGED <<inputs, phase, gen_cmd, build_pipeline, warnings, cmds, exit_status>>

\* The next Popen() raises: its executable is not found.  Nothing catches the
\* exception and the interpreter ends, closing the pipe ends it holds.
LaunchFails ==
    /\ pc = "launch"
    /\ ~exists_in_path(cmds[Len(processes) + 1][1], path)
    /\ pc' = "raised"
    /\ handles' = {}
    /\ UNCHANGED <<inputs, phase, gen_cmd, build_pipeline, warnings, cmds, processes,
                   todo, exit_status, trace>>

\* process.wait() returns for the next process of the reverse sweep; then
\* sys.exit, the next process, or the return to build() and what build() does next.
Wait ==
    /\ pc = "wait"
    /\ todo # << >>
    /\ ~IsNone(processes[Head(todo)].exit)
    /\ LET returncode == Value(processes[Head(todo)].exit)
       IN  /\ trace' = Append(trace, [op |-> "wait", phase |-> phase, stage |-> Head(todo),
                                      returncode |-> returncode])
           /\ IF must_exit(returncode)
              THEN /\ pc' = "exited"
                   /\ exit_status' = Some(returncode)
                   /\ handles' = {}
                   /\ UNCHANGED <<phase, cmds, processes, todo>>
              ELSE IF Tail(todo) # << >>
              THEN /\ todo' = Tail(todo)
                   /\ UNCHANGED <<pc, phase, cmds, processes, handles, exit_status>>
              ELSE IF phase = "gen" /\ ~call.skip_build
              THEN /\ phase' = "build"
                   /\ cmds' = build_pipeline
                   /\ pc' = "launch"
                   /\ processes' = << >>
                   /\ handles' = {}
                   /\ todo' = << >>
                   /\ UNCHANGED exit_status
              ELSE /\ pc' = "returned"
                   /\ handles' = {}
                   /\ todo' = << >>
                   /\ UNCHANGED <<phase, cmds, processes, exit_status>>
    /\ UNCHANGED <<inputs, gen_cmd, build_pipeline, warnings>>

(***************************************************************************)
(* The children.  A relay stage writes its output to its stdout pipe and   *)
(* exits once it has written all of it; any other stage may exit at any    *)
(* time.  A write blocks while the pipe is full and some process holds its *)
(* read end; with no read end left the writer gets SIGPIPE.                *)
(***************************************************************************)
alive(i) == i \in DOMAIN processes /\ IsNone(processes[i].exit)

\* no process holds the read end of stage i's stdout pipe
no_reader(i) == i \notin handles /\ ~alive(i + 1)

ChildWrite(i) ==
    /\ alive(i)
    /\ processes[i].towrite > 0
    /\ processes[i].buffered < PipeCap
    /\ ~no_reader(i)
    /\ processes' = [processes EXCEPT ![i].towrite = @ - 1, ![i].buffered = @ + 1]
    /\ UNCHANGED <<inputs, pc, phase, gen_cmd, build_pipeline, warnings, cmds, handles,
                   todo, exit_status, trace>>

ChildRead(i) ==
    /\ i > 1
    /\ alive(i)
    /\ processes[i - 1].buffered > 0
    /\ processes' = [processes EXCEPT ![i - 1].buffered = @ - 1]
    /\ UNCHANGED <<inputs, pc, phase, gen_cmd, build_pipeline, warnings, cmds, handles,
                   todo, exit_status, trace>>

ChildExit(i, code) ==
    /\ alive(i)
    /\ processes[i].towrite = 0
    /\ processes' = [processes EXCEPT ![i].exit = Some(code)]
    /\ UNCHANGED <<inputs, pc, phase, gen_cmd, build_pipeline, warnings, cmds, handles,
                   todo, exit_status, trace>>

\* The write of a relay stage finds no read end left: the child is killed by
\* SIGPIPE (signal 13), which Popen reports as the returncode -13.
ChildSigpipe(i) ==
    /\ alive(i)
    /\ processes[i].towrite > 0
    /\ no_reader(i)
    /\ processes' = [processes EXCEPT ![i].exit = Some(-13)]
    /\ UNCHANGED <<inputs, pc, phase, gen_cmd, build_pipeline, warnings, cmds, handles,
                   todo, exit_status, trace>>

Next ==
    \/ Build
    \/ Launch
    \/ LaunchFails
    \/ Wait
    \/ \E i \in DOMAIN processes : ChildWrite(i)
    \/ \E i \in DOMAIN processes : ChildRead(i)
    \/ \E i \in DOMAIN processes : \E code \in ExitCodes : ChildExit(i, code)
    \/ \E i \in DOMAIN processes : ChildSigpipe(i)

Spec == Init /\ [][Next]_vars

\* The scheduling the operating system gives: the orchestrator and every child
\* that can take a step eventually takes one.
FairSpec ==
    /\ Spec
    /\ WF_vars(Build) /\ WF_vars(Launch) /\ WF_vars(LaunchFails) /\ WF_vars(Wait)
    /\ \A i \in 1..(MaxPiped + 2) :
        /\ WF_vars(ChildWrite(i))
        /\ WF_vars(ChildRead(i))
        /\ WF_vars(\E code \in ExitCodes : ChildExit(i, code))
        /\ WF_vars(ChildSigpipe(i))

(***************************************************************************)
(* The configuration as the claims name it, read from the inputs.          *)
(***************************************************************************)
SkipGeneration == call.skip_gen \/ ("skip_gen" \in DOMAIN subargs /\ subargs.skip_gen)
SkipBuild == call.skip_build
IsRelease == IF "release" \in DOMAIN subargs THEN subargs.release ELSE call.is_release
KeepDebugInfo ==
    IF "debug_info" \in DOMAIN subargs THEN subargs.debug_info ELSE call.debug_info
\* build() was entered with a configuration it neither skips nor rejects, and
\* has assembled its commands
Assembled ==
    /\ pc # "build"
    /\ ~(SkipGeneration /\ SkipBuild)
    /\ (IsRelease \/ KeepDebugInfo)

CcacheAbsent == args.ccache /\ "ccache" \notin path
PagerAbsent == args.page /\ path \cap {"less", "bat", "more"} = {}
UnbufferAbsent == Len(build_pipeline) > 1 /\ "unbuffer" \notin path
OptionalTools == {"ccache", "unbuffer", "less", "bat", "more"}
NotFound(tool) == "WARN: " \o tool \o " not found in path"

\* the maximal runs <<first, last>> of non-whitespace characters of s
Runs(s) ==
    {r \in (1..Len(s)) \X (1..Len(s)) :
        /\ r[1] <= r[2]
        /\ \A k \in r[1]..r[2] : s[k] \notin Whitespace
        /\ (r[1] = 1 \/ s[r[1] - 1] \in Whitespace)
        /\ (r[2] = Len(s) \/ s[r[2] + 1] \in Whitespace)}

RECURSIVE Joined(_, _, _)
Joined(s, a, b) == IF a > b THEN "" ELSE s[a] \o Joined(s, a + 1, b)

\* the whitespace-split tokens of s: its runs, from left to right
Tokens(s) ==
    [i \in 1..Cardinality(Runs(s)) |->
        LET r == CHOOSE q \in Runs(s) : Cardinality({x \in Runs(s) : x[1] < q[1]}) = i - 1
        IN  Joined(s, r[1], r[2])]

\* the tokens of an optional attribute holding an optional free-form string
TokensOf(attr) ==
    IF attr \in DOMAIN subargs /\ subargs[attr] # << >> THEN Tokens(subargs[attr][1]) ELSE << >>

ListOf(optional) == IF optional = << >> THEN << >> ELSE optional[1]

\* the events of one piped_runner call
EventsOf(ph) == SelectSeq(trace, LAMBDA e : e.phase = ph)
StagesOf(ph) == IF ph = "gen" THEN 1 ELSE Len(build_pipeline)

Max(S) == CHOOSE m \in S : \A x \in S : x <= m

(***************************************************************************)
(* The claims.                                                             *)
(***************************************************************************)
AllExited ==
    /\ cmds # << >>
    /\ Len(processes) = Len(cmds)
    /\ \A i \in DOMAIN processes : processes[i].exit # << >>

FailingStages == {i \in DOMAIN processes : processes[i].exit # <<0>>}

\* C1: once every stage of a pipeline has been launched and has exited and the
\* executor is through, the invocation has exited with the code of the
\* highest-index stage whose code is not zero, or the executor has returned
\* normally, with no exit status, when every stage exited zero.
C1_ExitCodeOfLastFailingStage ==
    (pc \in {"exited", "returned"} /\ AllExited) =>
        IF FailingStages = {}
        THEN pc = "returned" /\ exit_status = << >>
        ELSE pc = "exited" /\ exit_status = processes[Max(FailingStages)].exit

\* C1, its case: three stages, the middle one exits 2 and the others 0, and the
\* invocation has exited with 2.
C1_Witness ==
    /\ Len(processes) = 3
    /\ [i \in 1..3 |-> processes[i].exit] = << <<0>>, <<2>>, <<0>> >>
    /\ pc = "exited"
    /\ exit_status = <<2>>

\* C2: with the generation skipped (by the parameter or by the parsed flag) and
\* the build skipped, build() launches no process, assembles nothing and, once
\* it has run, has returned normally having printed the one warning.
C2_BothSkippedLaunchesNothing ==
    (SkipGeneration /\ SkipBuild) =>
        /\ trace = << >>
        /\ processes = << >>
        /\ pc \in {"build", "returned"}
        /\ exit_status = << >>
        /\ (pc = "returned" =>
                warnings = <<"WARN: no commands will be run as gen and build were skipped">>)

\* C2, its case: build() has returned from a call whose generation was skipped
\* by the parsed flag only, with a debug build that keeps no debug info.
C2_Witness ==
    /\ pc = "returned"
    /\ SkipBuild
    /\ ~call.skip_gen
    /\ SkipGeneration
    /\ ~IsRelease
    /\ ~KeepDebugInfo

Rejected ==
    /\ pc = "assert_failed"
    /\ trace = << >>
    /\ processes = << >>
    /\ gen_cmd = << >>
    /\ build_pipeline = << >>

\* C3 as stated: whatever its other fields, a configuration with isRelease and
\* keepDebugInfo both false is rejected by build(): once build() has run it has
\* failed, with no command line assembled and no process launched.
C3_AlwaysRejected ==
    (~IsRelease /\ ~KeepDebugInfo /\ pc # "build") => Rejected

\* C3 as amended: a configuration with isRelease and keepDebugInfo both false
\* is rejected by build(), with no command line assembled and no process
\* launched, unless generation and build are both skipped.
C3_RejectedUnlessBothSkipped ==
    (~IsRelease /\ ~KeepDebugInfo /\ ~(SkipGeneration /\ SkipBuild) /\ pc # "build")
        => Rejected

\* C3, its case: build() has failed on a debug build whose parsed flag drops the
\* debug info that the parameter keeps.
C3_Witness ==
    /\ pc = "assert_failed"
    /\ call.debug_info
    /\ "debug_info" \in DOMAIN subargs
    /\ ~subargs.debug_info

Launches(ph) == SelectSeq(EventsOf(ph), LAMBDA e : e.op = "Popen")

\* C4: once the launch of a stage has failed, the stages after it have not been
\* launched, no launch has been made twice, and no stage launched before it is
\* still executing.
C4_LaunchFailureLeavesNothingRunning ==
    pc = "raised" =>
        /\ Len(processes) < Len(cmds)
        /\ Len(Launches(phase)) = Len(processes)
        /\ \A i \in DOMAIN processes : processes[i].exit # << >>

Launchers ==
    {"-DCMAKE_C_COMPILER_LAUNCHER=ccache", "-DCMAKE_CXX_COMPILER_LAUNCHER=ccache",
     "-DCMAKE_CUDA_COMPILER_LAUNCHER=ccache"}

\* the absent optional tool's feature is off, and the tool is never launched
FeaturesDisabled ==
    /\ CcacheAbsent => \A k \in DOMAIN gen_cmd : gen_cmd[k] \notin Launchers
    /\ PagerAbsent => Tail(build_pipeline) = ListOf(call.piped_commands)
    /\ UnbufferAbsent => build_pipeline[1][1] = "cmake"
    /\ pc # "assert_failed"
    /\ pc = "raised" => cmds[Len(processes) + 1][1] \notin OptionalTools

\* C5 as stated: with the commands assembled, every optional tool that is used
\* and absent has its feature disabled without failing the run, and a warning
\* is logged for it: ccache's and unbuffer's by name, the pagers' as a
\* warning other than ccache's.
C5_AbsentToolsWarned ==
    Assembled =>
        /\ FeaturesDisabled
        /\ CcacheAbsent => \E k \in DOMAIN warnings : warnings[k] = NotFound("ccache")
        /\ UnbufferAbsent => \E k \in DOMAIN warnings : warnings[k] = NotFound("unbuffer")
        /\ PagerAbsent => \E k \in DOMAIN warnings : warnings[k] # NotFound("ccache")

BuildTypeName ==
    CASE ~IsRelease -> "Debug"
      [] IsRelease /\ KeepDebugInfo -> "RelWithDebInfo"
      [] IsRelease /\ ~KeepDebugInfo -> "Release"

TestingFlag ==
    IF "build_testing" \in DOMAIN subargs
    THEN CASE subargs.build_testing = <<TRUE>> -> <<"-DBUILD_TESTING=ON">>
           [] subargs.build_testing = <<FALSE>> -> <<"-DBUILD_TESTING=OFF">>
           [] subargs.build_testing = << >> -> << >>
    ELSE << >>

ExpectedGenCmd ==
    <<"cmake", "-G" \o args.generator, "-B" \o call.directory,
      "-DCMAKE_BUILD_TYPE=" \o BuildTypeName>>
    \o (IF args.source_dir # << >> THEN <<args.source_dir[1]>> ELSE << >>)
    \o (IF args.ccache /\ "ccache" \in path
        THEN <<"-DCMAKE_C_COMPILER_LAUNCHER=ccache", "-DCMAKE_CXX_COMPILER_LAUNCHER=ccache",
               "-DCMAKE_CUDA_COMPILER_LAUNCHER=ccache">>
        ELSE << >>)
    \o TestingFlag
    \o ListOf(call.additional_gen_args)
    \o TokensOf("gen_args")

\* C6: for every accepted configuration the generation command is cmake,
\* -G<generator>, -B<directory>, -DCMAKE_BUILD_TYPE=<Debug, RelWithDebInfo or
\* Release>, the source directory if set, the three launcher overrides if
\* ccache is wanted and present, -DBUILD_TESTING=ON or OFF if set, the
\* caller's fixed arguments and the whitespace-split tokens of
\* extraGenerationArgs, in this order; and it is the one command of the
\* generation pipeline.
C6_GenerationCommand ==
    Assembled =>
        /\ gen_cmd = ExpectedGenCmd
        /\ phase = "gen" => cmds = <<ExpectedGenCmd>>

\* C6, its case: the generation command of a release build without debug info,
\* with a source directory, ccache present, testing off and a fixed argument
\* is being run.
C6_Witness ==
    /\ Assembled
    /\ phase = "gen"
    /\ IsRelease
    /\ ~KeepDebugInfo
    /\ args.source_dir # << >>
    /\ args.ccache
    /\ "ccache" \in path
    /\ "build_testing" \in DOMAIN subargs
    /\ subargs.build_testing = <<FALSE>>
    /\ ListOf(call.additional_gen_args) # << >>
    /\ Len(gen_cmd) = 10

ParallelismFlag ==
    CASE args.threads # << >> -> <<"-j", ToString(args.threads[1])>>
      [] args.threads = << >> /\ args.generator = "Unix Makefiles" -> <<"-j", ToString(cpu_count)>>
      [] OTHER -> << >>

KeepGoingFlag ==
    CASE args.keep_going /\ args.generator = "Unix Makefiles" -> <<"-k">>
      [] args.keep_going /\ args.generator = "Ninja" -> <<"-k", "0">>
      [] OTHER -> << >>

ExpectedBuildCmd ==
    (IF Len(build_pipeline) > 1 /\ "unbuffer" \in path THEN <<"unbuffer">> ELSE << >>)
    \o <<"cmake", "--build", call.directory>>
    \o ListOf(call.additional_build_args)
    \o TokensOf("build_args")
    \o ParallelismFlag
    \o <<"--">>
    \o KeepGoingFlag

\* C7: for every accepted configuration the build command is cmake, preceded
\* by unbuffer if the build pipeline has more than one stage and unbuffer is
\* present, --build <directory>, the caller's fixed arguments, the
\* whitespace-split tokens of extraBuildArgs, the parallelism flag, -- and the
\* keep-going flag of the generator, in this order; and it is the first
\* command of the pipeline handed to the executor for the build.
C7_BuildCommand ==
    Assembled =>
        /\ build_pipeline[1] = ExpectedBuildCmd
        /\ phase = "build" => cmds # << >> /\ cmds[1] = ExpectedBuildCmd

\* C7, its case: the build command of a Makefile build with no thread count,
\* keep-going set and a pager is being run under unbuffer.
C7_Witness ==
    /\ Assembled
    /\ phase = "build"
    /\ processes # << >>
    /\ args.generator = "Unix Makefiles"
    /\ args.threads = << >>
    /\ args.keep_going
    /\ Len(cmds) = 2
    /\ cmds[1][1] = "unbuffer"
    /\ ListOf(call.additional_build_args) # << >>

\* the events of the piped_runner call of phase ph are the launches of its
\* stages 1, 2, ... in order, then, after all n of them, the waits of the
\* stages n, n - 1, ... in order, none following a wait that found a code other
\* than zero
SweepOrder(ph) ==
    LET t == EventsOf(ph)
        n == StagesOf(ph)
    IN  \A j \in DOMAIN t :
            /\ j <= n => t[j].op = "Popen" /\ t[j].stage = j
            /\ j > n => /\ t[j].op = "wait"
                        /\ t[j].stage = 2 * n + 1 - j
                        /\ j < Len(t) => t[j].returncode = 0

\* C8: in every piped_runner call all stages are launched, first to last,
\* before any is awaited; they are awaited one at a time last to first; and at
\* the first awaited stage with a code other than zero the invocation has
\* exited with that code, no earlier stage being awaited.
C8_LaunchAllThenReverseSweep ==
    /\ SweepOrder("gen")
    /\ SweepOrder("build")
    /\ \A j \in DOMAIN trace :
            (trace[j].op = "wait" /\ trace[j].returncode # 0) =>
                /\ j = Len(trace)
                /\ pc = "exited"
                /\ exit_status = <<trace[j].returncode>>

\* C8, its case: three stages were launched, the sink was awaited and had
\* exited 0, the middle stage was awaited and had exited 1, and the invocation
\* has exited with 1 while the first stage, never awaited, still runs.
C8_Witness ==
    /\ Len(processes) = 3
    /\ Len(EventsOf("build")) = 5
    /\ trace[Len(trace)] = [op |-> "wait", phase |-> "build", stage |-> 2, returncode |-> 1]
    /\ processes[1].exit = << >>
    /\ pc = "exited"
    /\ exit_status = <<1>>

\* C9: when neither generation nor build is skipped, the generation command is
\* launched alone and every event of the build pipeline comes after the
\* generation command was awaited and had exited zero; if it exited with
\* another code the invocation has exited with that code and nothing of the
\* build pipeline was launched.
C9_GenerationBeforeBuild ==
    (~SkipGeneration /\ ~SkipBuild) =>
        /\ phase = "gen" => cmds = <<gen_cmd>>
        /\ \A j \in DOMAIN trace :
                /\ trace[j].phase = "build" =>
                        /\ j > 2
                        /\ trace[1] = [op |-> "Popen", phase |-> "gen", stage |-> 1]
                        /\ trace[2] = [op |-> "wait", phase |-> "gen", stage |-> 1,
                                       returncode |-> 0]
                /\ (trace[j].phase = "gen" /\ trace[j].op = "wait" /\ trace[j].returncode # 0) =>
                        /\ pc = "exited"
                        /\ exit_status = <<trace[j].returncode>>
                        /\ EventsOf("build") = << >>

\* C9, its case: with a pager in the build pipeline, the generation command
\* has exited 2 and the invocation has exited with 2.
C9_Witness ==
    /\ ~SkipGeneration
    /\ ~SkipBuild
    /\ Len(build_pipeline) = 2
    /\ phase = "gen"
    /\ pc = "exited"
    /\ exit_status = <<2>>

\* C10: under fair scheduling every invocation terminates: the executor never
\* waits for ever on a child that is blocked on a pipe of the executor's own.
C10_ExecutorTerminates == <>(pc \in Terminal)
====
